---- MODULE Spec2Model ----
(***************************************************************************)
(* A model of sdverse_products.py: the interactive loop of main(), the     *)
(* per-source drivers process_file / process_url, the query engine         *)
(* ask_ollama, the slug of a URL and the output files.                     *)
(*                                                                         *)
(* Python strings are sequences of one-character strings, so that strip(), *)
(* lower(), replace(), re.sub() and urlparse() are computed, not assumed.  *)
(* A file of the output directory is the sequence of complete JSON         *)
(* documents it holds: open(path, "w") leaves <<>>, json.dump appends one. *)
(***************************************************************************)
EXTENDS Integers, Sequences, FiniteSets, TLC

\* ------------------------------------------------------------------ bounds
\* Number of answers to the "Enter a folder path ..." prompt in one run of main().
MaxRuns == 2
\* Number of entries a scanned directory holds.
MaxFiles == 2
\* Number of characters after "http://" in the URLs given to slugify_url alone.
MaxUrlLen == 4

\* ------------------------------------------------------------------ strings
LowerAlpha ==
  <<"a","b","c","d","e","f","g","h","i","j","k","l","m",
    "n","o","p","q","r","s","t","u","v","w","x","y","z">>

UpperAlpha ==
  <<"A","B","C","D","E","F","G","H","I","J","K","L","M",
    "N","O","P","Q","R","S","T","U","V","W","X","Y","Z">>

Digits == {"0","1","2","3","4","5","6","7","8","9"}

SetOf(s) == {s[i] : i \in DOMAIN s}

Letters == SetOf(LowerAlpha) \cup SetOf(UpperAlpha)

\* str.strip() with no argument strips these.
Whitespace == {" ", "\n", "\t", "\r"}

SetMin(S) == CHOOSE x \in S : \A y \in S : x <= y

SetMax(S) == CHOOSE x \in S : \A y \in S : y <= x

\* s.strip(chars): drop the leading and trailing characters that are in chars.
StripChars(s, chars) ==
  LET keep == {i \in 1..Len(s) : s[i] \notin chars}
  IN  IF keep = {} THEN <<>> ELSE SubSeq(s, SetMin(keep), SetMax(keep))

\* s.strip()
Strip(s) == StripChars(s, Whitespace)

LowerChar(c) ==
  IF \E i \in 1..26 : UpperAlpha[i] = c
    THEN LowerAlpha[CHOOSE i \in 1..26 : UpperAlpha[i] = c]
    ELSE c

\* s.lower()
Lower(s) == [i \in 1..Len(s) |-> LowerChar(s[i])]

\* s.replace(old, new) for one-character old and new.
Replace(s, old, new) == [i \in 1..Len(s) |-> IF s[i] = old THEN new ELSE s[i]]

\* s.startswith(prefix)
StartsWith(s, prefix) ==
  /\ Len(s) >= Len(prefix)
  /\ SubSeq(s, 1, Len(prefix)) = prefix

\* s.find(c in chars, from): the first index >= from of a character of chars, 0 if none.
FindFirst(s, chars, from) ==
  LET at == {i \in from..Len(s) : s[i] \in chars}
  IN  IF at = {} THEN 0 ELSE SetMin(at)

\* s.rfind(c): the last index of c, 0 if none.
FindLast(s, c) ==
  LET at == {i \in 1..Len(s) : s[i] = c}
  IN  IF at = {} THEN 0 ELSE SetMax(at)

RECURSIVE Join(_, _)
\* sep.join(parts)
Join(parts, sep) ==
  IF parts = <<>> THEN <<>>
  ELSE IF Len(parts) = 1 THEN parts[1]
  ELSE parts[1] \o sep \o Join(Tail(parts), sep)

\* ------------------------------------------------------------------ configuration
QUESTIONS ==
  << "provide short description of the product or services?",
     "provide long description of the product or services?" >>

HttpPrefix == <<"h","t","t","p",":","/","/">>

HttpsPrefix == <<"h","t","t","p","s",":","/","/">>

JsonExt == <<".","j","s","o","n">>

SupportedSuffixes ==
  { <<".","p","d","f">>, <<".","p","p","t","x">>, <<".","d","o","c","x">> }

\* ------------------------------------------------------------------ pathlib
\* Path.suffix of a file name: from the last dot, unless the dot is the first or
\* the last character of the name.
Suffix(name) ==
  LET i == FindLast(name, ".")
  IN  IF i > 1 /\ i < Len(name) THEN SubSeq(name, i, Len(name)) ELSE <<>>

\* Path.stem of a file name: the name without its suffix.
Stem(name) == SubSeq(name, 1, Len(name) - Len(Suffix(name)))

\* ------------------------------------------------------------------ urlparse
\* The characters urllib allows in a scheme.
SchemeChars == Letters \cup Digits \cup {"+", "-", "."}

\* urllib.parse.urlparse(url), the fields slugify_url reads: the scheme is cut at
\* the first ":", the netloc follows "//" up to the first of "/", "?", "#", the
\* fragment is cut at the first "#", the query at the first "?", and for http(s)
\* the params at the first ";" of the last path segment.
UrlParse(url) ==
  LET colon   == FindFirst(url, {":"}, 1)
      hasSch  == /\ colon > 1
                 /\ url[1] \in Letters
                 /\ \A i \in 1..(colon - 1) : url[i] \in SchemeChars
      scheme  == IF hasSch THEN Lower(SubSeq(url, 1, colon - 1)) ELSE <<>>
      rest    == IF hasSch THEN SubSeq(url, colon + 1, Len(url)) ELSE url
      hasNet  == StartsWith(rest, <<"/","/">>)
      delim   == FindFirst(rest, {"/", "?", "#"}, 3)
      netEnd  == IF delim = 0 THEN Len(rest) ELSE delim - 1
      netloc  == IF hasNet THEN SubSeq(rest, 3, netEnd) ELSE <<>>
      after   == IF hasNet THEN SubSeq(rest, netEnd + 1, Len(rest)) ELSE rest
      hash    == FindFirst(after, {"#"}, 1)
      noFrag  == IF hash = 0 THEN after ELSE SubSeq(after, 1, hash - 1)
      quest   == FindFirst(noFrag, {"?"}, 1)
      noQuery == IF quest = 0 THEN noFrag ELSE SubSeq(noFrag, 1, quest - 1)
      usesPar == scheme \in { <<"h","t","t","p">>, <<"h","t","t","p","s">> }
      slash   == FindLast(noQuery, "/")
      semi    == FindFirst(noQuery, {";"}, IF slash = 0 THEN 1 ELSE slash)
      path    == IF usesPar /\ semi > 0 THEN SubSeq(noQuery, 1, semi - 1) ELSE noQuery
  IN  [scheme |-> scheme, netloc |-> netloc, path |-> path]

\* ------------------------------------------------------------------ slugify_url
\* The characters re.sub(r"[^a-zA-Z0-9_]+", "", slug) keeps.
SlugChars == Letters \cup Digits \cup {"_"}

Link == <<"l","i","n","k">>

\* re.sub(r"[^a-zA-Z0-9_]+", "", s)
ReSubNonSlug(s) == SelectSeq(s, LAMBDA c : c \in SlugChars)

\* parsed.netloc.replace(".", "_") + parsed.path.replace("/", "_")
SlugSource(parsed) ==
  Replace(parsed.netloc, ".", "_") \o Replace(parsed.path, "/", "_")

\* s or "link"
OrLink(s) == IF s = <<>> THEN Link ELSE s

\* A slugify_url that forgets the final strip("_").
SlugifyUrlNoStrip(url) == OrLink(ReSubNonSlug(SlugSource(UrlParse(url))))

\* slugify_url(url)
SlugifyUrl(url) ==
  OrLink(StripChars(ReSubNonSlug(SlugSource(UrlParse(url))), {"_"}))

\* ------------------------------------------------------------------ extractors
Newline == <<"\n">>

\* What the third-party parser finds in a file: it fails (ok = FALSE), or yields
\* the text of each page, shape or paragraph in order.
FileParses ==
  { [ok |-> FALSE, frags |-> <<>>],
    [ok |-> TRUE,  frags |-> <<>>],
    [ok |-> TRUE,  frags |-> << <<>>, <<" ">> >>],
    [ok |-> TRUE,  frags |-> << <<"t">>, <<>> >>] }

\* extract_text_from_pdf / _pptx / _docx: the fragments joined by newlines, or the
\* parser's exception.
ExtractTextFromParsed(parsed) ==
  IF parsed.ok
    THEN [raised |-> FALSE, exc |-> "", text |-> Join(parsed.frags, Newline)]
    ELSE [raised |-> TRUE, exc |-> "ParseError", text |-> <<>>]

\* extract_text_from_file(file_path): dispatch on the lower-cased suffix.
ExtractTextFromFile(name, parsed) ==
  LET ext == Lower(Suffix(name))
  IN  IF ext = <<".","p","d","f">> THEN ExtractTextFromParsed(parsed)
      ELSE IF ext = <<".","p","p","t","x">> THEN ExtractTextFromParsed(parsed)
      ELSE IF ext = <<".","d","o","c","x">> THEN ExtractTextFromParsed(parsed)
      ELSE [raised |-> TRUE, exc |-> "ValueError", text |-> <<>>]

\* What requests.get and BeautifulSoup find at a URL: a failure (network error or
\* HTTP error status), or the title (none or one) and the h1-h6, p and li texts.
UrlResponses ==
  { [ok |-> FALSE, title |-> <<>>, tags |-> <<>>],
    [ok |-> TRUE,  title |-> << <<" ">> >>, tags |-> << <<"\n">> >>],
    [ok |-> TRUE,  title |-> <<>>, tags |-> << <<" ","t"," ">>, <<" ">> >>] }

\* extract_text_from_url(url): "" on any failure; else the title as it is, then
\* every tag's stripped text that is not empty, joined by newlines.
ExtractTextFromUrl(resp) ==
  IF ~resp.ok THEN <<>>
  ELSE LET stripped == [i \in 1..Len(resp.tags) |-> Strip(resp.tags[i])]
           kept     == SelectSeq(stripped, LAMBDA t : t # <<>>)
       IN  Join(resp.title \o kept, Newline)

\* ------------------------------------------------------------------ ask_ollama
ErrPrefix == <<"E","r","r","o","r",":"," ">>

TimedOutMsg ==
  ErrPrefix \o <<"R","e","q","u","e","s","t"," ","t","i","m","e","d"," ","o","u","t">>

\* What subprocess.run(["ollama", "run", MODEL], ...) does: the process exits
\* (return code, stdout, stderr), exceeds the timeout, or cannot be started.
ModelOutcomes ==
  { [kind |-> "exit", rc |-> 0, stdout |-> <<" ","a","\n">>, stderr |-> <<>>, msg |-> <<>>],
    [kind |-> "exit", rc |-> 1, stdout |-> <<>>, stderr |-> <<"e","\n">>, msg |-> <<>>],
    [kind |-> "timeout", rc |-> 0, stdout |-> <<>>, stderr |-> <<>>, msg |-> <<>>],
    [kind |-> "oserror", rc |-> 0, stdout |-> <<>>, stderr |-> <<>>, msg |-> <<"x">>] }

\* An ask_ollama without its try/except: a timeout or a failure to start raises.
AskOllamaUnguarded(question, context_text, o) ==
  IF o.kind = "timeout" THEN [raised |-> TRUE, exc |-> "TimeoutExpired", value |-> <<>>]
  ELSE IF o.kind = "oserror" THEN [raised |-> TRUE, exc |-> "OSError", value |-> <<>>]
  ELSE IF o.rc # 0 THEN [raised |-> FALSE, exc |-> "", value |-> ErrPrefix \o o.stderr]
  ELSE [raised |-> FALSE, exc |-> "", value |-> Strip(o.stdout)]

\* ask_ollama(question, context_text) when the model process behaves as o.
AskOllama(question, context_text, o) ==
  IF o.kind = "timeout" THEN [raised |-> FALSE, exc |-> "", value |-> TimedOutMsg]
  ELSE IF o.kind = "oserror" THEN [raised |-> FALSE, exc |-> "", value |-> ErrPrefix \o o.msg]
  ELSE IF o.rc # 0 THEN [raised |-> FALSE, exc |-> "", value |-> ErrPrefix \o o.stderr]
  ELSE [raised |-> FALSE, exc |-> "", value |-> Strip(o.stdout)]

\* ------------------------------------------------------------------ check_ollama
\* What subprocess.run(["ollama", "--version"], check=True) does.
Probes == {"ok", "missing", "failed"}

\* A check_ollama that runs the version command without check=True.
CheckOllamaUnchecked(probe) == probe # "missing"

\* check_ollama(): True only when the version command ran and exited with 0.
CheckOllama(probe) == probe = "ok"

\* ------------------------------------------------------------------ process_file, process_url
\* The exceptions the model raises; each is a subclass of Exception.
ExceptionClasses == {"ValueError", "ParseError", "OSError", "TimeoutExpired"}

\* A handler that catches ValueError alone.
CaughtValueErrorOnly(exc) == exc = "ValueError"

\* "except Exception as e" of process_file and process_url.
CaughtAtSourceBoundary(exc) == exc \in ExceptionClasses

\* A test that forgets strip(): "if not text".
NoTextUnstripped(text) == text = <<>>

\* "if not text.strip()"
NoText(text) == Strip(text) = <<>>

\* A dict that holds the last assignment alone: qa_results = {q: answer}.
DictSetLastOnly(d, k, v) == << [k |-> k, v |-> v] >>

\* d[k] = v on a Python dict, kept as the sequence of its items in insertion
\* order: an existing key keeps its place, a new key goes last.
DictSet(d, k, v) ==
  IF \E i \in 1..Len(d) : d[i].k = k
    THEN [i \in 1..Len(d) |-> IF d[i].k = k THEN [k |-> k, v |-> v] ELSE d[i]]
    ELSE Append(d, [k |-> k, v |-> v])

\* A loop over the questions that stops after the first one.
LoopDoneAfterFirst(i) == i > 1

\* "for q in QUESTIONS" is exhausted before its i-th iteration.
LoopDone(i) == i > Len(QUESTIONS)

\* output_data of a source whose answers are qa.
OutputData(src, qa) == [source |-> src.id, qa |-> qa]

\* output_path relative to output_folder: the stem (file) or the slug (URL), ".json".
OutputPath(src) ==
  IF src.kind = "file" THEN Stem(src.id) \o JsonExt ELSE SlugifyUrl(src.id) \o JsonExt

\* An open(path, "a"): the file keeps what it holds.
OpenAppend(files, path) ==
  [p \in DOMAIN files \cup {path} |-> IF p \in DOMAIN files THEN files[p] ELSE <<>>]

\* open(output_path, "w"): the file exists and is empty.
OpenWrite(files, path) ==
  [p \in DOMAIN files \cup {path} |-> IF p = path THEN <<>> ELSE files[p]]

\* json.dump(output_data, f) and the close of the file.
JsonDump(files, path, data) == [files EXCEPT ![path] = Append(@, data)]

\* ------------------------------------------------------------------ the environment
\* A local file is its name; a URL is its text.
NoSource == [kind |-> "none", id |-> <<>>]

FileSource(name) == [kind |-> "file", id |-> name]

UrlSource(url) == [kind |-> "url", id |-> url]

\* The names a scanned directory may hold: two files of one stem, one of them with
\* an upper-case suffix, and a file of an unsupported type.
DirEntries ==
  { <<"a",".","p","d","f">>, <<"a",".","D","O","C","X">>, <<"c",".","t","x","t">> }

\* Path.iterdir() of a directory: its entries, each once, in any order.
Listings ==
  { l \in UNION { [1..n -> DirEntries] : n \in 0..MaxFiles } :
      \A i, j \in DOMAIN l : i # j => l[i] # l[j] }

\* What the typed path is on disk: not a directory, or a directory and its listing.
DirStates ==
  { [is_dir |-> FALSE, listing |-> <<>>] } \cup { [is_dir |-> TRUE, listing |-> l] : l \in Listings }

\* What the operator types at the first prompt: a folder, or a link.
UserInputs ==
  { <<"d">>,
    <<" ">> \o HttpPrefix \o <<"b","/","-">>,
    HttpsPrefix \o <<"b","/">> }

\* What the operator types at the second prompt.
AgainInputs == { <<"y">>, <<" ","Y","\n">>, <<"n">>, <<>> }

\* ------------------------------------------------------------------ state
VARIABLES
  pc,          \* where main() is: start, prompt, process, again, done, crashed, or
               \* slugify / slugified when slugify_url is called alone
  probe,       \* what the version command of check_ollama did ("none" before it)
  outdir,      \* whether main() has made sure the output directory exists
  runs,        \* how many times the first prompt was answered
  batch,       \* the sources of the current answer, in processing order
  todo,        \* the files of the batch that follow the current one
  cur,         \* the source process_file / process_url is working on
  ppc,         \* where process_file / process_url is: idle, extract, ask, write,
               \* saved (line 160), skipped (line 141), caught (line 163)
  text,        \* text of process_file / process_url
  qi,          \* the index in QUESTIONS of the next question
  qa_results,  \* qa_results, as the sequence of its items
  results,     \* history: what the model process did for each question asked
  slug,        \* slug of process_url, and the result of slugify_url called alone
  fs,          \* the output directory: file name -> the documents the file holds
  fs0,         \* history: fs when the current source was started
  log,         \* history: the events of the current answer, oldest first
  outcomes     \* history: how each finished source of the batch ended

vars ==
  << pc, probe, outdir, runs, batch, todo, cur, ppc, text, qi, qa_results,
     results, slug, fs, fs0, log, outcomes >>

EmptyFs == [p \in {} |-> <<>>]

Event(ev, src, q) == [ev |-> ev, src |-> src.id, q |-> q]

Init ==
  /\ pc = "start"
  /\ probe = "none"
  /\ outdir = FALSE
  /\ runs = 0
  /\ batch = <<>>
  /\ todo = <<>>
  /\ cur = NoSource
  /\ ppc = "idle"
  /\ text = <<>>
  /\ qi = 0
  /\ qa_results = <<>>
  /\ results = <<>>
  /\ slug = <<>>
  /\ fs = EmptyFs
  /\ fs0 = EmptyFs
  /\ log = <<>>
  /\ outcomes = <<>>

\* ------------------------------------------------------------------ main
\* user_input.startswith("http://") or user_input.startswith("https://")
IsLink(user_input) ==
  StartsWith(user_input, HttpPrefix) \/ StartsWith(user_input, HttpsPrefix)

\* f.suffix.lower() in [".pdf", ".pptx", ".docx"]
IsSupported(name) == Lower(Suffix(name)) \in SupportedSuffixes

\* main(), lines 202-206: the pre-flight check, then the output directory.
Preflight ==
  /\ pc = "start"
  /\ \E p \in Probes :
       /\ probe' = p
       /\ IF CheckOllama(p)
            THEN pc' = "prompt" /\ outdir' = TRUE
            ELSE pc' = "done" /\ outdir' = outdir
  /\ UNCHANGED << runs, batch, todo, cur, ppc, text, qi, qa_results, results,
                  slug, fs, fs0, log, outcomes >>

\* The call of process_file / process_url on src, the first of a batch b.
Begin(b) ==
  /\ pc' = "process"
  /\ batch' = b
  /\ cur' = b[1]
  /\ todo' = Tail(b)
  /\ ppc' = "extract"
  /\ fs0' = fs
  /\ UNCHANGED << text, qi, qa_results, results, slug, fs, log, outcomes >>

\* main(), lines 209-212: a link is typed.
PromptLink ==
  /\ pc = "prompt"
  /\ runs < MaxRuns
  /\ \E raw \in UserInputs :
       /\ IsLink(Strip(raw))
       /\ Begin(<< UrlSource(Strip(raw)) >>)
  /\ runs' = runs + 1
  /\ UNCHANGED << probe, outdir >>

\* main(), lines 213-227: a folder is typed; "continue" when it is no directory or
\* holds no supported file.
PromptFolder ==
  /\ pc = "prompt"
  /\ runs < MaxRuns
  /\ \E raw \in UserInputs, dir \in DirStates :
       LET files == SelectSeq(dir.listing, IsSupported)
       IN  /\ ~IsLink(Strip(raw))
           /\ IF ~dir.is_dir \/ files = <<>>
                THEN UNCHANGED << pc, batch, todo, cur, ppc, text, qi, qa_results,
                                  results, slug, fs, fs0, log, outcomes >>
                ELSE Begin([i \in 1..Len(files) |-> FileSource(files[i])])
  /\ runs' = runs + 1
  /\ UNCHANGED << probe, outdir >>

\* main(), lines 229-232: the second prompt.
RunAgain ==
  /\ pc = "again"
  /\ \E raw \in AgainInputs :
       pc' = IF Lower(Strip(raw)) = <<"y">> THEN "prompt" ELSE "done"
  /\ batch' = <<>>
  /\ log' = <<>>
  /\ outcomes' = <<>>
  /\ UNCHANGED << probe, outdir, runs, todo, cur, ppc, text, qi, qa_results,
                  results, slug, fs, fs0 >>

\* ------------------------------------------------------------------ process_file, process_url
\* An exception exc reaches the try of process_file / process_url.
Raise(exc) ==
  IF CaughtAtSourceBoundary(exc)
    THEN pc' = pc /\ ppc' = "caught"
    ELSE pc' = "crashed" /\ ppc' = "idle"

\* Lines 137-143 and 169-175: the extraction and the test of the text.
Extract ==
  /\ pc = "process"
  /\ ppc = "extract"
  /\ \E parsed \in FileParses, resp \in UrlResponses :
       LET r == IF cur.kind = "file"
                  THEN ExtractTextFromFile(cur.id, parsed)
                  ELSE [raised |-> FALSE, exc |-> "", text |-> ExtractTextFromUrl(resp)]
       IN  IF r.raised
             THEN Raise(r.exc) /\ UNCHANGED << text, qi >>
             ELSE /\ text' = r.text
                  /\ pc' = pc
                  /\ IF NoText(r.text)
                       THEN ppc' = "skipped" /\ qi' = qi
                       ELSE /\ qi' = 1
                            /\ ppc' = IF LoopDone(1) THEN "write" ELSE "ask"
  /\ log' = Append(log, Event("extract", cur, ""))
  /\ UNCHANGED << probe, outdir, runs, batch, todo, cur, qa_results, results,
                  slug, fs, fs0, outcomes >>

\* Lines 146-149 and 178-181: one iteration of the loop over QUESTIONS.
Ask ==
  /\ pc = "process"
  /\ ppc = "ask"
  /\ \E o \in ModelOutcomes :
       LET q == QUESTIONS[qi]
           r == AskOllama(q, text, o)
       IN  /\ results' = Append(results, o)
           /\ log' = Append(log, Event("ask", cur, q))
           /\ IF r.raised
                THEN Raise(r.exc) /\ UNCHANGED << qi, qa_results >>
                ELSE /\ qa_results' = DictSet(qa_results, q, r.value)
                     /\ qi' = qi + 1
                     /\ pc' = pc
                     /\ ppc' = IF LoopDone(qi + 1) THEN "write" ELSE "ask"
  /\ UNCHANGED << probe, outdir, runs, batch, todo, cur, text, slug, fs, fs0, outcomes >>

\* Lines 151-160 and 183-193: the document is written.
WriteOk ==
  /\ pc = "process"
  /\ ppc = "write"
  /\ slug' = IF cur.kind = "url" THEN SlugifyUrl(cur.id) ELSE slug
  /\ fs' = JsonDump(OpenWrite(fs, OutputPath(cur)), OutputPath(cur),
                    OutputData(cur, qa_results))
  /\ log' = Append(log, Event("write", cur, ""))
  /\ ppc' = "saved"
  /\ UNCHANGED << pc, probe, outdir, runs, batch, todo, cur, text, qi, qa_results,
                  results, fs0, outcomes >>

\* Lines 156-157 and 189-190: open() raises; the file is as it was.
WriteOpenFails ==
  /\ pc = "process"
  /\ ppc = "write"
  /\ slug' = IF cur.kind = "url" THEN SlugifyUrl(cur.id) ELSE slug
  /\ Raise("OSError")
  /\ UNCHANGED << probe, outdir, runs, batch, todo, cur, text, qi, qa_results,
                  results, fs, fs0, log, outcomes >>

\* Lines 157-158 and 190-191: open() has truncated the file and the dump raises
\* before a complete document is in it.
WriteDumpFails ==
  /\ pc = "process"
  /\ ppc = "write"
  /\ slug' = IF cur.kind = "url" THEN SlugifyUrl(cur.id) ELSE slug
  /\ fs' = OpenWrite(fs, OutputPath(cur))
  /\ log' = Append(log, Event("write", cur, ""))
  /\ Raise("OSError")
  /\ UNCHANGED << probe, outdir, runs, batch, todo, cur, text, qi, qa_results,
                  results, fs0, outcomes >>

\* process_file / process_url returns: the next file of the batch (line 226), or
\* the second prompt.
Return ==
  /\ pc = "process"
  /\ ppc \in {"saved", "skipped", "caught"}
  /\ outcomes' = Append(outcomes, ppc)
  /\ text' = <<>>
  /\ qi' = 0
  /\ qa_results' = <<>>
  /\ results' = <<>>
  /\ slug' = <<>>
  /\ fs0' = fs
  /\ IF todo # <<>>
       THEN /\ cur' = Head(todo)
            /\ todo' = Tail(todo)
            /\ ppc' = "extract"
            /\ pc' = pc
       ELSE /\ cur' = NoSource
            /\ todo' = todo
            /\ ppc' = "idle"
            /\ pc' = "again"
  /\ UNCHANGED << probe, outdir, runs, batch, fs, log >>

Next ==
  \/ Preflight
  \/ PromptLink
  \/ PromptFolder
  \/ RunAgain
  \/ Extract
  \/ Ask
  \/ WriteOk
  \/ WriteOpenFails
  \/ WriteDumpFails
  \/ Return

Spec == Init /\ [][Next]_vars

\* ------------------------------------------------------------------ slugify_url alone
\* The characters of the URLs given to slugify_url alone.
SlugAlphabet == {"a", ".", "/", "-", "_", "?", "#", ";", ":"}

SlugTails == UNION { [1..n -> SlugAlphabet] : n \in 0..MaxUrlLen }

SlugUrls == { p \o t : p \in {HttpPrefix, HttpsPrefix}, t \in SlugTails }

InitSlug ==
  /\ pc = "slugify"
  /\ cur \in { UrlSource(u) : u \in SlugUrls }
  /\ probe = "none"
  /\ outdir = FALSE
  /\ runs = 0
  /\ batch = <<>>
  /\ todo = <<>>
  /\ ppc = "idle"
  /\ text = <<>>
  /\ qi = 0
  /\ qa_results = <<>>
  /\ results = <<>>
  /\ slug = <<>>
  /\ fs = EmptyFs
  /\ fs0 = EmptyFs
  /\ log = <<>>
  /\ outcomes = <<>>

\* slug = slugify_url(url)
SlugifyCall ==
  /\ pc = "slugify"
  /\ slug' = SlugifyUrl(cur.id)
  /\ pc' = "slugified"
  /\ UNCHANGED << probe, outdir, runs, batch, todo, cur, ppc, text, qi, qa_results,
                  results, fs, fs0, log, outcomes >>

NextSlug == SlugifyCall

SpecSlug == InitSlug /\ [][NextSlug]_vars

\* ------------------------------------------------------------------ properties
\* Every character of s is whitespace (s may be empty).
IsBlank(s) == \A i \in 1..Len(s) : s[i] \in Whitespace

\* s neither starts nor ends with whitespace.
IsTrimmed(s) == s = <<>> \/ (s[1] \notin Whitespace /\ s[Len(s)] \notin Whitespace)

\* The documents the output directory holds.
WrittenDocs == UNION { SetOf(fs[p]) : p \in DOMAIN fs }

\* The keys of a qa mapping, in insertion order.
Keys(qa) == [i \in 1..Len(qa) |-> qa[i].k]

\* The model process failed: it timed out, could not be started, or exited non-zero.
Failed(o) == o.kind # "exit" \/ o.rc # 0

\* The place of a logged event in the processing of its source: 0 for the
\* extraction, k for the k-th question, one more than the questions for the write.
Rank(e) ==
  IF e.ev = "extract" THEN 0
  ELSE IF e.ev = "ask" THEN CHOOSE k \in 1..Len(QUESTIONS) : QUESTIONS[k] = e.q
  ELSE Len(QUESTIONS) + 1

\* The place of a logged event's source in the batch.
BatchIndex(e) == CHOOSE i \in 1..Len(batch) : batch[i].id = e.src

\* C1: when the extracted text of a source (file or URL) is empty or
\* whitespace-only, processing ends without asking the model any question and
\* with the output directory exactly as it was when the source was started.
C1_EmptyTextNoOutput ==
  (pc = "process" /\ ppc # "extract" /\ IsBlank(text))
    => /\ ppc \in {"skipped", "caught"}
       /\ fs = fs0
       /\ \A i \in 1..Len(log) : log[i].src = cur.id => log[i].ev = "extract"

\* C1 witness: a source whose text is whitespace-only (not empty) was skipped.
C1_Witness == ppc = "skipped" /\ Len(text) > 0 /\ IsBlank(text)

\* C2: every document in the output directory has a qa mapping whose keys are
\* exactly QUESTIONS, in QUESTIONS order, one entry each (2 entries), whatever
\* the model process did for each question.
C2_QaHasEveryQuestion ==
  \A d \in WrittenDocs : Keys(d.qa) = QUESTIONS /\ Len(d.qa) = 2

\* C2 witness: a document was saved after the first query timed out and the second
\* exited non-zero.
C2_Witness ==
  /\ ppc = "saved"
  /\ Len(results) = 2
  /\ results[1].kind = "timeout"
  /\ results[2].kind = "exit" /\ results[2].rc # 0
  /\ WrittenDocs # {}

\* C3: a failed query never aborts the source: each query made so far has its
\* answer recorded under its question, a failed one as a string that starts with
\* "Error: " (exactly "Error: Request timed out" for a timeout); the source is not
\* abandoned in the query loop, and the saved document holds those answers.
C3_QueryFailureIsAnAnswer ==
  /\ Len(qa_results) = Len(results)
  /\ \A i \in 1..Len(results) :
       /\ qa_results[i].k = QUESTIONS[i]
       /\ Failed(results[i]) => StartsWith(qa_results[i].v, ErrPrefix)
       /\ results[i].kind = "timeout" => qa_results[i].v = TimedOutMsg
  /\ ppc = "caught" => Len(results) \in {0, Len(QUESTIONS)}
  /\ ppc \in {"write", "saved"} => Len(results) = Len(QUESTIONS)
  /\ ppc = "saved" =>
       /\ OutputPath(cur) \in DOMAIN fs
       /\ fs[OutputPath(cur)] # <<>>
       /\ fs[OutputPath(cur)][Len(fs[OutputPath(cur)])].qa = qa_results

\* C3 witness: the first query timed out, the second was still asked and
\* succeeded, and the document was saved.
C3_Witness ==
  /\ ppc = "saved"
  /\ Len(results) = 2
  /\ results[1].kind = "timeout"
  /\ ~Failed(results[2])

\* C4: a failure of one source is caught at the source boundary: main() never
\* crashes, no file of a batch is dropped, and when the batch is over every one
\* of its sources has been started.
C4_FailureDoesNotAbortBatch ==
  /\ pc # "crashed"
  /\ pc = "process" => Len(outcomes) + 1 + Len(todo) = Len(batch)
  /\ pc = "again" =>
       /\ Len(outcomes) = Len(batch)
       /\ \A i \in 1..Len(batch) :
            \E j \in 1..Len(log) : log[j].ev = "extract" /\ log[j].src = batch[i].id

\* C4 witness: the first file of a batch of two failed with an exception and the
\* second was then processed and saved.
C4_Witness ==
  /\ pc = "again"
  /\ Len(batch) = 2
  /\ outcomes = <<"caught", "saved">>

\* C5: when the pre-flight check fails, the run is over at once: no prompt was
\* answered, no source was started, nothing was logged or written.
C5_PreflightFailureEndsRun ==
  probe \in {"missing", "failed"}
    => /\ pc = "done"
       /\ runs = 0
       /\ cur = NoSource
       /\ ppc = "idle"
       /\ log = <<>>
       /\ fs = EmptyFs

\* C5 witness: the version command ran and failed, and the run is over.
C5_Witness == probe = "failed" /\ pc = "done"

\* C6 (as claimed): when a batch is over, every source of it that was saved has
\* a document with its identifier as "source" in the output directory.
C6_OneDocumentPerSource ==
  pc = "again" =>
    \A i \in 1..Len(batch) :
      outcomes[i] = "saved" => \E d \in WrittenDocs : d.source = batch[i].id

\* C7: once a source is saved, the file at its output path holds exactly the
\* document of this run, and every other file of the output directory is as it
\* was when the source was started.
C7_RerunOverwrites ==
  ppc = "saved" =>
    /\ OutputPath(cur) \in DOMAIN fs
    /\ fs[OutputPath(cur)] = << [source |-> cur.id, qa |-> qa_results] >>
    /\ DOMAIN fs = DOMAIN fs0 \cup {OutputPath(cur)}
    /\ \A p \in DOMAIN fs0 : p # OutputPath(cur) => fs[p] = fs0[p]

\* C7 witness: the source was saved over a document of the same source that held
\* other answers.
C7_Witness ==
  /\ ppc = "saved"
  /\ OutputPath(cur) \in DOMAIN fs0
  /\ Len(fs0[OutputPath(cur)]) = 1
  /\ fs0[OutputPath(cur)][1].source = cur.id
  /\ fs0[OutputPath(cur)][1].qa # qa_results

\* A path made only of punctuation, with more in it than slashes.
AllPunctuationPath(path) ==
  /\ path # <<>>
  /\ \A i \in 1..Len(path) : path[i] \notin Letters \cup Digits
  /\ \E i \in 1..Len(path) : path[i] # "/"

\* The slug of a netloc and a path, stated on the characters of netloc + path:
\* those that survive are the letters, digits and underscores, the dots of the
\* netloc and the slashes of the path (both as underscores), from the first
\* letter or digit to the last one; "link" when there is no letter or digit.
SlugIsAsStated(netloc, path, result) ==
  LET cat    == netloc \o path
      core   == {i \in 1..Len(cat) : cat[i] \in Letters \cup Digits}
      kept   == {i \in 1..Len(cat) :
                   /\ core # {}
                   /\ i >= SetMin(core)
                   /\ i <= SetMax(core)
                   /\ \/ cat[i] \in SlugChars
                      \/ (i <= Len(netloc) /\ cat[i] = ".")
                      \/ (i > Len(netloc) /\ cat[i] = "/")}
  IN  IF core = {} THEN result = Link
      ELSE /\ Len(result) = Cardinality(kept)
           /\ \A i \in kept :
                result[Cardinality({j \in kept : j <= i})] =
                  (IF cat[i] \in {".", "/"} THEN "_" ELSE cat[i])

C9_AnswersAreTrimmed ==
  /\ \A i \in 1..Len(qa_results) : IsTrimmed(qa_results[i].v)
  /\ \A d \in WrittenDocs : \A i \in 1..Len(d.qa) : IsTrimmed(d.qa[i].v)

\* C10: the events of an answer are strictly ordered: the first is an extraction;
\* an extraction is of a later source of the batch than the event before it; a
\* query or a write follows at once the previous step of the same source
\* (extraction, each question in QUESTIONS order, write); and the output
\* directory is untouched until the last question is answered.
C10_StrictOrder ==
  /\ \A j \in 1..Len(log) :
       IF Rank(log[j]) = 0
         THEN j > 1 => BatchIndex(log[j - 1]) < BatchIndex(log[j])
         ELSE /\ j > 1
              /\ log[j - 1].src = log[j].src
              /\ Rank(log[j - 1]) = Rank(log[j]) - 1
  /\ ppc \in {"extract", "ask", "write"} => fs = fs0

\* C10 witness: a batch of two files ended with both saved.
C10_Witness ==
  /\ pc = "again"
  /\ Len(batch) = 2
  /\ outcomes = <<"saved", "saved">>
  /\ Len(log) = 2 * (Len(QUESTIONS) + 2)

====
